---- MODULE Spec2Model ----
(***************************************************************************)
(* PredicateConnector (examples/react-app/src/connector/common/            *)
(* PredicateConnector.ts): the abstract connector that bridges a wallet     *)
(* (reached through the abstract _connect/_disconnect/_sign_message/...     *)
(* hooks) with the Bako Safe custody service.                              *)
(*                                                                         *)
(* JavaScript runs one call at a time and a call gives up control only at  *)
(* an await.  Every async method is therefore cut at its awaits: one       *)
(* action per stretch of code between two awaits, taken atomically.  A      *)
(* call in flight is a record of `task`; `pc` names the awaited call.       *)
(* Everything outside the file (hooks, custody service, vault, storage      *)
(* failures, crypto.randomUUID) is a nondeterministic choice of its         *)
(* outcome.                                                                *)
(*                                                                         *)
(* The wallet behind the hooks is kept as two variables, following the     *)
(* hooks' documentation: _get_current_evm_address() is null while the      *)
(* wallet is not connected (line 205), _require_connection() throws while  *)
(* it is not (line 210), _connect() resolving true connects it and         *)
(* _disconnect() resolving true disconnects it.  Not modelled: a listener   *)
(* that throws inside this.emit, and an address string that new Address()  *)
(* rejects.                                                                *)
(***************************************************************************)
EXTENDS Naturals, Sequences, FiniteSets, TLC

\* ------------------------------------------------------------------ bounds
\* How many public calls (connect, disconnect, sendTransaction, isConnected,
\* the capability stubs) the application makes on the connector instance, in
\* total.
MaxCalls == 2
\* How many listeners this.subscriptions holds at most, and how many times
\* clearSubscriptions() is called.
MaxSubscriptions == 2
MaxClears == 2

\* ------------------------------------------------------- program constants
SELECTED_PREDICATE_KEY == "fuel_selected_predicate_version"
DEFAULT_ACCOUNT == "default"
SESSION_ID == "sessionId"
CURRENT_ACCOUNT == "currentAccount"

\* localStorage.getItem of an absent key (null), and an undefined property.
Null == "null"
Undefined == "undefined"

\* ------------------------------------------------------------ input sets
\* crypto.randomUUID() results.
UUIDs == {"uuid-1", "uuid-2"}
\* What the wallet hook can report as the current EVM address.
EvmAddrs == {"0xE1"}
\* The b256 form of the address of the wallet the custody service returns.
WalletAddrs == {"0xW1"}
\* vault.version of the vault resolved by Vault.fromAddress.
Versions == {"v1", "v2"}
\* The callbacks handed to subscribe().
Listeners == {"listenerA", "listenerB"}
\* The keys this file reads, writes or removes.
Keys == {SESSION_ID, CURRENT_ACCOUNT, SELECTED_PREDICATE_KEY, DEFAULT_ACCOUNT}

Tasks == 1..MaxCalls

VARIABLES
  connected,       \* this.connected
  localStorage,    \* window.localStorage, restricted to Keys
  socketClient,    \* the sessionId SocketClient.create was given
  walletConnected, \* the wallet behind the hooks: is it connected
  walletAddress,   \* the wallet behind the hooks: _get_current_evm_address()
  task,            \* the public calls made so far, in the order they were made
  started,         \* how many public calls were made
  subscriptions,   \* this.subscriptions
  invoked,         \* the listeners the latest clearSubscriptions() invoked
  clears           \* how many times clearSubscriptions() was called

vars == <<connected, localStorage, socketClient, walletConnected,
          walletAddress, task, started, subscriptions, invoked, clears>>

subscriptionVars == <<subscriptions, invoked, clears>>
connectorVars == <<connected, localStorage, socketClient, walletConnected,
                   walletAddress, task, started>>

\* ------------------------------------------------------------- helpers

\* JavaScript truthiness of a string-or-null storage value.
Truthy(v) == v # Null /\ v # Undefined /\ v # ""

\* new Address(evmAddress).toB256(): the EVM address left-padded to 32 bytes.
ToB256(evm) == "0x000000000000000000000000" \o evm

\* localStorage.setItem.
setItem(store, k, v) == [store EXCEPT ![k] = v]

\* getSessionId(): the stored id, or a fresh one that is stored first.
\* `fresh` is what crypto.randomUUID() would return.
getSessionId(store, fresh) ==
  IF Truthy(store[SESSION_ID])
    THEN [id |-> store[SESSION_ID], store |-> store]
    ELSE [id |-> fresh, store |-> setItem(store, SESSION_ID, fresh)]

\* accounts(): the stored current account as a list of at most one.
accounts(store) ==
  IF Truthy(store[CURRENT_ACCOUNT]) THEN <<store[CURRENT_ACCOUNT]>> ELSE <<>>

\* currentAccount(): null unless connected.
currentAccount(conn, store) ==
  IF ~conn THEN Null ELSE store[CURRENT_ACCOUNT]

\* One this.emit(event, payload), with what a listener reading the connector
\* inside the notification would see.
\* The payload is a list: <<"true">> for true, <<Null>> for null, <<>> for [].
Emission(ev, payload, conn, store) ==
  [event |-> ev, payload |-> payload, connected |-> conn,
   accounts |-> accounts(store)]

\* ------------------------------------------------------------- the calls

NoTask ==
  [op |-> "none", pc |-> "idle", result |-> "none", error |-> "none",
   calls |-> <<>>, hook |-> "none", evmAddress |-> "none", seen |-> "none",
   sessionId |-> Null, version |-> Null, idVersion |-> Null,
   sigVersion |-> Null,
   setConnected |-> FALSE, wroteAccount |-> FALSE, emitted |-> <<>>,
   changed |-> FALSE, began |-> "none", alone |-> FALSE]

InFlight == {t \in Tasks : task[t].op # "none" /\ task[t].pc # "done"}

\* A call to the custody service, the vault or the network, as made by a task.
Call(name, arg) == [name |-> name, arg |-> arg]

\* The connected flag, as a task's first call to the custody service finds it.
Flag(conn) == IF conn THEN "connected" ELSE "disconnected"

NewTask(op, pc) ==
  [NoTask EXCEPT !.op = op, !.pc = pc, !.alone = (InFlight = {})]

\* A call ends: resolves with a value, or rejects with an error.
Return(r, value) == [r EXCEPT !.pc = "done", !.result = value]
Throw(r, error) == [r EXCEPT !.pc = "done", !.result = "threw", !.error = error]

\* ---------------------------------------------------------------- Init
\* The state after `new`: the constructor ran initializeSocketClient(), which
\* called getSessionId() on whatever the storage held (a reload keeps the
\* storage of the previous page; a stored "" counts as absent).  The two
\* markers this file only ever removes, the selected predicate version and the
\* default account, start out both stored or both absent.
initializeSocketClient(store, fresh) == getSessionId(store, fresh)

Init ==
  \E sid \in {Null, "", "uuid-1"}, acc \in WalletAddrs \cup {Null},
     sel \in {Null, "v1"} :
    LET before == [k \in Keys |->
                     CASE k = SESSION_ID -> sid
                       [] k = CURRENT_ACCOUNT -> acc
                       [] k = SELECTED_PREDICATE_KEY -> sel
                       [] OTHER -> IF sel = Null THEN Null ELSE "0xW1"]
        made == initializeSocketClient(before, "uuid-1")
    IN /\ connected = FALSE
       /\ localStorage = made.store
       /\ socketClient = made.id
       /\ walletConnected = FALSE
       /\ walletAddress = Null
       /\ task = [t \in Tasks |-> NoTask]
       /\ started = 0
       /\ subscriptions = <<>>
       /\ invoked = <<>>
       /\ clears = 0

\* ------------------------------------------------------------ connect()
\* connect() is called: it runs up to `await this._connect()` (line 81).
connect_call ==
  /\ started < MaxCalls
  /\ started' = started + 1
  /\ task' = [task EXCEPT ![started + 1] = NewTask("connect", "_connect")]
  /\ UNCHANGED subscriptionVars
  /\ UNCHANGED <<connected, localStorage, socketClient, walletConnected,
                 walletAddress>>

\* connect_after_connect without the early return of lines 82-84: a wallet
\* hook that resolved false is treated like one that resolved true.
connect_after_connect_no_return(t) ==
  /\ task[t].op = "connect" /\ task[t].pc = "_connect"
  /\ \E r \in {"true", "false", "throw"} :
       LET me == [task[t] EXCEPT !.hook = r] IN
       IF r = "throw"
         THEN /\ task' = [task EXCEPT ![t] = Throw(me, "_connect")]
              /\ UNCHANGED <<walletConnected, walletAddress>>
         ELSE /\ task' = [task EXCEPT ![t] = [me EXCEPT !.pc = "_get_providers"]]
              /\ walletConnected' = (r = "true" \/ walletConnected)
              /\ walletAddress' \in
                   (IF r = "true" THEN EvmAddrs \cup {Null} ELSE {walletAddress})
  /\ UNCHANGED subscriptionVars
  /\ UNCHANGED <<connected, localStorage, socketClient, started>>

\* _connect() settles (lines 81-87): false returns false, true goes on to
\* `await this._get_providers()`.  A wallet that connected may still have no
\* address to report.
connect_after_connect(t) ==
  /\ task[t].op = "connect" /\ task[t].pc = "_connect"
  /\ \E r \in {"true", "false", "throw"} :
       LET me == [task[t] EXCEPT !.hook = r] IN
       CASE r = "throw" ->
              /\ task' = [task EXCEPT ![t] = Throw(me, "_connect")]
              /\ UNCHANGED <<walletConnected, walletAddress>>
         [] r = "false" ->
              /\ task' = [task EXCEPT ![t] = Return(me, "false")]
              /\ UNCHANGED <<walletConnected, walletAddress>>
         [] OTHER ->
              /\ task' = [task EXCEPT ![t] = [me EXCEPT !.pc = "_get_providers"]]
              /\ walletConnected' = TRUE
              /\ walletAddress' \in EvmAddrs \cup {Null}
  /\ UNCHANGED subscriptionVars
  /\ UNCHANGED <<connected, localStorage, socketClient, started>>

\* connect_after_get_providers with `return false` where line 90 throws.
connect_after_get_providers_return_false(t) ==
  /\ task[t].op = "connect" /\ task[t].pc = "_get_providers"
  /\ \E ok \in BOOLEAN :
       LET me == [task[t] EXCEPT !.evmAddress = walletAddress] IN
       task' = [task EXCEPT ![t] =
         IF ~ok THEN Throw(task[t], "_get_providers")
         ELSE IF ~Truthy(walletAddress) THEN Return(me, "false")
         ELSE [me EXCEPT !.pc = "setup",
                         !.began = Flag(connected),
                         !.calls = Append(@, Call("setup", ToB256(walletAddress)))]]
  /\ UNCHANGED subscriptionVars
  /\ UNCHANGED <<connected, localStorage, socketClient, walletConnected,
                 walletAddress, started>>

\* _get_providers() settles (lines 87-102): the address is read, a missing one
\* throws, otherwise the challenge is requested with BakoProvider.setup.
connect_after_get_providers(t) ==
  /\ task[t].op = "connect" /\ task[t].pc = "_get_providers"
  /\ \E ok \in BOOLEAN :
       LET me == [task[t] EXCEPT !.evmAddress = walletAddress] IN
       task' = [task EXCEPT ![t] =
         IF ~ok THEN Throw(task[t], "_get_providers")
         ELSE IF ~Truthy(walletAddress) THEN Throw(me, "EVM address not found")
         ELSE [me EXCEPT !.pc = "setup",
                         !.began = Flag(connected),
                         !.calls = Append(@, Call("setup", ToB256(walletAddress)))]]
  /\ UNCHANGED subscriptionVars
  /\ UNCHANGED <<connected, localStorage, socketClient, walletConnected,
                 walletAddress, started>>

\* BakoProvider.setup settles (lines 97-104): the challenge is handed to
\* `await this._sign_message(challengeCode)`.
connect_after_setup(t) ==
  /\ task[t].op = "connect" /\ task[t].pc = "setup"
  /\ \E ok \in BOOLEAN :
       task' = [task EXCEPT ![t] =
         IF ok THEN [@ EXCEPT !.pc = "_sign_message"] ELSE Throw(@, "setup")]
  /\ UNCHANGED subscriptionVars
  /\ UNCHANGED <<connected, localStorage, socketClient, walletConnected,
                 walletAddress, started>>

\* _sign_message settles (lines 104-113): the session id is read and
\* BakoProvider.authenticate is called.
connect_after_sign_message(t) ==
  /\ task[t].op = "connect" /\ task[t].pc = "_sign_message"
  /\ \E ok \in BOOLEAN, fresh \in UUIDs :
       LET got == getSessionId(localStorage, fresh) IN
       IF ok
         THEN /\ localStorage' = got.store
              /\ task' = [task EXCEPT ![t] =
                   [@ EXCEPT !.pc = "authenticate", !.sessionId = got.id,
                             !.changed = (got.store # localStorage),
                             !.calls = Append(@, Call("authenticate", Null))]]
         ELSE /\ task' = [task EXCEPT ![t] = Throw(@, "_sign_message")]
              /\ UNCHANGED localStorage
  /\ UNCHANGED subscriptionVars
  /\ UNCHANGED <<connected, socketClient, walletConnected, walletAddress,
                 started>>

\* BakoProvider.authenticate settles (lines 107-115): connectDapp(sessionId).
connect_after_authenticate(t) ==
  /\ task[t].op = "connect" /\ task[t].pc = "authenticate"
  /\ \E ok \in BOOLEAN :
       task' = [task EXCEPT ![t] =
         IF ok THEN [@ EXCEPT !.pc = "connectDapp",
                              !.calls = Append(@, Call("connectDapp", task[t].sessionId))]
         ELSE Throw(@, "authenticate")]
  /\ UNCHANGED subscriptionVars
  /\ UNCHANGED <<connected, localStorage, socketClient, walletConnected,
                 walletAddress, started>>

\* connectDapp settles (lines 115-118): bakoProvider.wallet().
connect_after_connectDapp(t) ==
  /\ task[t].op = "connect" /\ task[t].pc = "connectDapp"
  /\ \E ok \in BOOLEAN :
       task' = [task EXCEPT ![t] =
         IF ok THEN [@ EXCEPT !.pc = "wallet",
                              !.calls = Append(@, Call("wallet", Null))]
         ELSE Throw(@, "connectDapp")]
  /\ UNCHANGED subscriptionVars
  /\ UNCHANGED <<connected, localStorage, socketClient, walletConnected,
                 walletAddress, started>>

\* connect_after_wallet that stores the account under STORAGE_KEYS.DEFAULT_ACCOUNT
\* where line 125 uses STORAGE_KEYS.CURRENT_ACCOUNT.
connect_after_wallet_wrong_key(t) ==
  /\ task[t].op = "connect" /\ task[t].pc = "wallet"
  /\ \E w \in WalletAddrs \cup {Undefined, "throw"}, setItemOk \in BOOLEAN :
       LET emits == << Emission("connection", <<"true">>, connected, localStorage),
                       Emission("currentAccount", <<w>>, connected, localStorage),
                       Emission("accounts", IF Truthy(w) THEN <<w>> ELSE <<>>,
                                connected, localStorage) >>
           me == [task[t] EXCEPT !.emitted = emits, !.setConnected = TRUE]
       IN
       IF w = "throw"
         THEN /\ task' = [task EXCEPT ![t] = Throw(@, "wallet")]
              /\ UNCHANGED <<connected, localStorage>>
         ELSE /\ connected' = TRUE
              /\ IF Truthy(w) /\ setItemOk
                   THEN /\ localStorage' = setItem(localStorage, DEFAULT_ACCOUNT, w)
                        /\ task' = [task EXCEPT ![t] =
                             Return([me EXCEPT !.wroteAccount = TRUE,
                                               !.changed = TRUE], "true")]
                   ELSE /\ UNCHANGED localStorage
                        /\ task' = [task EXCEPT ![t] = Throw(me, "setItem")]
  /\ UNCHANGED subscriptionVars
  /\ UNCHANGED <<socketClient, walletConnected, walletAddress, started>>

\* bakoProvider.wallet() settles (lines 118-127): the three notifications, then
\* this.connected = true, then the storage write, then return true.  `w` is
\* wallet.address (line 122 allows for a wallet without one); the write fails
\* when there is no address to call toB256() on, or when setItem throws.
connect_after_wallet(t) ==
  /\ task[t].op = "connect" /\ task[t].pc = "wallet"
  /\ \E w \in WalletAddrs \cup {Undefined, "throw"}, setItemOk \in BOOLEAN :
       LET emits == << Emission("connection", <<"true">>, connected, localStorage),
                       Emission("currentAccount", <<w>>, connected, localStorage),
                       Emission("accounts", IF Truthy(w) THEN <<w>> ELSE <<>>,
                                connected, localStorage) >>
           me == [task[t] EXCEPT !.emitted = emits, !.setConnected = TRUE]
       IN
       IF w = "throw"
         THEN /\ task' = [task EXCEPT ![t] = Throw(@, "wallet")]
              /\ UNCHANGED <<connected, localStorage>>
         ELSE /\ connected' = TRUE
              /\ IF Truthy(w) /\ setItemOk
                   THEN /\ localStorage' = setItem(localStorage, CURRENT_ACCOUNT, w)
                        /\ task' = [task EXCEPT ![t] =
                             Return([me EXCEPT !.wroteAccount = TRUE,
                                               !.changed = TRUE], "true")]
                   ELSE /\ UNCHANGED localStorage
                        /\ task' = [task EXCEPT ![t] = Throw(me, "setItem")]
  /\ UNCHANGED subscriptionVars
  /\ UNCHANGED <<socketClient, walletConnected, walletAddress, started>>

\* --------------------------------------------------------- disconnect()
\* removeKeys that clears every session-scoped key, the session id included.
removeKeys_clearAll(store, n) ==
  LET order == <<SELECTED_PREDICATE_KEY, CURRENT_ACCOUNT, DEFAULT_ACCOUNT,
                 SESSION_ID>> IN
  [k \in Keys |->
     IF \E i \in 1..(IF n = 3 THEN 4 ELSE n) : order[i] = k
       THEN Null ELSE store[k]]

\* The three removeItem calls of lines 301-303, in order, of which the first
\* `n` succeed (fewer than three: the next one threw, or there is no
\* window.localStorage, and line 305 caught it).
removeKeys(store, n) ==
  LET order == <<SELECTED_PREDICATE_KEY, CURRENT_ACCOUNT, DEFAULT_ACCOUNT>> IN
  [k \in Keys |->
     IF \E i \in 1..n : order[i] = k THEN Null ELSE store[k]]

\* disconnect() is called: it runs up to `await this._disconnect()` (line 296).
disconnect_call ==
  /\ started < MaxCalls
  /\ started' = started + 1
  /\ task' = [task EXCEPT ![started + 1] = NewTask("disconnect", "_disconnect")]
  /\ UNCHANGED subscriptionVars
  /\ UNCHANGED <<connected, localStorage, socketClient, walletConnected,
                 walletAddress>>

\* disconnect_after_disconnect without the try/catch of lines 299-307: a
\* removal that throws ends the call.
disconnect_after_disconnect_no_try(t) ==
  /\ task[t].op = "disconnect" /\ task[t].pc = "_disconnect"
  /\ \E r \in {"true", "false", "throw"}, n \in 0..3 :
       LET me == [task[t] EXCEPT !.hook = r]
           store == removeKeys(localStorage, n)
       IN
       IF r = "throw"
         THEN /\ task' = [task EXCEPT ![t] = Throw(me, "_disconnect")]
              /\ UNCHANGED <<connected, localStorage, walletConnected,
                             walletAddress>>
         ELSE /\ connected' = FALSE
              /\ localStorage' = store
              /\ task' = [task EXCEPT ![t] =
                   IF n < 3
                     THEN Throw([me EXCEPT !.changed = (store # localStorage),
                                           !.seen = "caught"], "removeItem")
                     ELSE Return([me EXCEPT
                       !.emitted =
                          << Emission("connection", <<"false">>, FALSE, store),
                             Emission("currentAccount", <<Null>>, FALSE, store),
                             Emission("accounts", <<>>, FALSE, store) >>,
                       !.changed = (store # localStorage),
                       !.seen = "removed"], "true")]
              /\ walletConnected' = IF r = "true" THEN FALSE ELSE walletConnected
              /\ walletAddress' = IF r = "true" THEN Null ELSE walletAddress
  /\ UNCHANGED subscriptionVars
  /\ UNCHANGED <<socketClient, started>>

\* _disconnect() settles (lines 296-313).  Its boolean is not looked at; when
\* it throws, the await rethrows and nothing below line 296 runs.
disconnect_after_disconnect(t) ==
  /\ task[t].op = "disconnect" /\ task[t].pc = "_disconnect"
  /\ \E r \in {"true", "false", "throw"}, n \in 0..3 :
       LET me == [task[t] EXCEPT !.hook = r]
           store == removeKeys(localStorage, n)
       IN
       IF r = "throw"
         THEN /\ task' = [task EXCEPT ![t] = Throw(me, "_disconnect")]
              /\ UNCHANGED <<connected, localStorage, walletConnected,
                             walletAddress>>
         ELSE /\ connected' = FALSE
              /\ localStorage' = store
              /\ task' = [task EXCEPT ![t] =
                   Return([me EXCEPT
                     !.emitted =
                        << Emission("connection", <<"false">>, FALSE, store),
                           Emission("currentAccount", <<Null>>, FALSE, store),
                           Emission("accounts", <<>>, FALSE, store) >>,
                     !.changed = (store # localStorage),
                     !.seen = IF n = 3 THEN "removed" ELSE "caught"],
                          "true")]
              /\ walletConnected' = IF r = "true" THEN FALSE ELSE walletConnected
              /\ walletAddress' = IF r = "true" THEN Null ELSE walletAddress
  /\ UNCHANGED subscriptionVars
  /\ UNCHANGED <<socketClient, started>>

\* ----------------------------------------------------- sendTransaction()
\* sendTransaction() is called: it runs up to `await this._get_providers()`
\* (line 139).  Every failure below is caught at line 180, logged and rethrown.
sendTransaction_call ==
  /\ started < MaxCalls
  /\ started' = started + 1
  /\ task' = [task EXCEPT ![started + 1] =
                NewTask("sendTransaction", "_get_providers")]
  /\ UNCHANGED subscriptionVars
  /\ UNCHANGED <<connected, localStorage, socketClient, walletConnected,
                 walletAddress>>

\* _get_providers() settles (lines 139-151): the address is read, a missing one
\* throws, otherwise BakoProvider.create is called with the session token.
sendTransaction_after_get_providers(t) ==
  /\ task[t].op = "sendTransaction" /\ task[t].pc = "_get_providers"
  /\ \E ok \in BOOLEAN, fresh \in UUIDs :
       LET me == [task[t] EXCEPT !.evmAddress = walletAddress]
           got == getSessionId(localStorage, fresh)
       IN
       IF ok /\ Truthy(walletAddress)
         THEN /\ localStorage' = got.store
              /\ task' = [task EXCEPT ![t] =
                   [me EXCEPT !.pc = "create", !.sessionId = got.id,
                              !.changed = (got.store # localStorage),
                              !.began = Flag(connected),
                              !.calls = Append(@, Call("create", "connector" \o got.id))]]
         ELSE /\ UNCHANGED localStorage
              /\ task' = [task EXCEPT ![t] =
                   IF ok THEN Throw(me, "No connected accounts")
                         ELSE Throw(task[t], "_get_providers")]
  /\ UNCHANGED subscriptionVars
  /\ UNCHANGED <<connected, socketClient, walletConnected, walletAddress,
                 started>>

\* A step of lines 147-177 that only waits for one call and makes the next.
sendTransaction_next(t, awaited, next) ==
  /\ task[t].op = "sendTransaction" /\ task[t].pc = awaited
  /\ \E ok \in BOOLEAN :
       task' = [task EXCEPT ![t] =
         IF ok THEN [@ EXCEPT !.pc = next, !.calls = Append(@, Call(next, Null))]
               ELSE Throw(@, awaited)]
  /\ UNCHANGED subscriptionVars
  /\ UNCHANGED <<connected, localStorage, socketClient, walletConnected,
                 walletAddress, started>>

\* BakoProvider.create settles (lines 147-153): Vault.fromAddress.
sendTransaction_after_create(t) == sendTransaction_next(t, "create", "fromAddress")

\* Vault.fromAddress settles (lines 153-158) with a vault of some version:
\* vault.BakoTransfer(transaction).
sendTransaction_after_fromAddress(t) ==
  /\ task[t].op = "sendTransaction" /\ task[t].pc = "fromAddress"
  /\ \E v \in Versions \cup {"throw"} :
       task' = [task EXCEPT ![t] =
         IF v # "throw"
           THEN [@ EXCEPT !.pc = "BakoTransfer", !.version = v,
                          !.calls = Append(@, Call("BakoTransfer", Null))]
           ELSE Throw(@, "fromAddress")]
  /\ UNCHANGED subscriptionVars
  /\ UNCHANGED <<connected, localStorage, socketClient, walletConnected,
                 walletAddress, started>>

\* vault.BakoTransfer settles (lines 158-162): the id is encoded for the vault's
\* version and handed to `await this._sign_message(messageToSign)`.
sendTransaction_after_BakoTransfer(t) ==
  /\ task[t].op = "sendTransaction" /\ task[t].pc = "BakoTransfer"
  /\ \E ok \in BOOLEAN :
       task' = [task EXCEPT ![t] =
         IF ok THEN [@ EXCEPT !.pc = "_sign_message", !.idVersion = task[t].version]
               ELSE Throw(@, "BakoTransfer")]
  /\ UNCHANGED subscriptionVars
  /\ UNCHANGED <<connected, localStorage, socketClient, walletConnected,
                 walletAddress, started>>

\* sendTransaction_after_sign_message with lines 169-172 and line 174 swapped:
\* the transaction is dispatched before the co-signature is submitted.
sendTransaction_after_sign_message_send_first(t) ==
  /\ task[t].op = "sendTransaction" /\ task[t].pc = "_sign_message"
  /\ \E ok \in BOOLEAN :
       task' = [task EXCEPT ![t] =
         IF ok THEN [@ EXCEPT !.pc = "send", !.sigVersion = task[t].version,
                              !.calls = Append(@, Call("send", Null))]
               ELSE Throw(@, "_sign_message")]
  /\ UNCHANGED subscriptionVars
  /\ UNCHANGED <<connected, localStorage, socketClient, walletConnected,
                 walletAddress, started>>

\* sendTransaction_after_sign_message with the envelope version written out as
\* a literal where line 166 passes vault.version.
sendTransaction_after_sign_message_fixed_version(t) ==
  /\ task[t].op = "sendTransaction" /\ task[t].pc = "_sign_message"
  /\ \E ok \in BOOLEAN :
       task' = [task EXCEPT ![t] =
         IF ok THEN [@ EXCEPT !.pc = "signTransaction", !.sigVersion = "v1",
                              !.calls = Append(@, Call("signTransaction", Null))]
               ELSE Throw(@, "_sign_message")]
  /\ UNCHANGED subscriptionVars
  /\ UNCHANGED <<connected, localStorage, socketClient, walletConnected,
                 walletAddress, started>>

\* _sign_message settles (lines 162-172): the signature is encoded for the
\* vault's version and submitted with bakoProvider.signTransaction.
sendTransaction_after_sign_message(t) ==
  /\ task[t].op = "sendTransaction" /\ task[t].pc = "_sign_message"
  /\ \E ok \in BOOLEAN :
       task' = [task EXCEPT ![t] =
         IF ok THEN [@ EXCEPT !.pc = "signTransaction", !.sigVersion = task[t].version,
                              !.calls = Append(@, Call("signTransaction", Null))]
               ELSE Throw(@, "_sign_message")]
  /\ UNCHANGED subscriptionVars
  /\ UNCHANGED <<connected, localStorage, socketClient, walletConnected,
                 walletAddress, started>>

\* bakoProvider.signTransaction settles (lines 169-174): vault.send(tx).
sendTransaction_after_signTransaction(t) ==
  sendTransaction_next(t, "signTransaction", "send")

\* vault.send settles (lines 174-177): transactionResponse.waitForResult().
sendTransaction_after_send(t) == sendTransaction_next(t, "send", "waitForResult")

\* waitForResult settles (lines 177-179): the response is returned.
sendTransaction_after_waitForResult(t) ==
  /\ task[t].op = "sendTransaction" /\ task[t].pc = "waitForResult"
  /\ \E ok \in BOOLEAN :
       task' = [task EXCEPT ![t] =
         IF ok THEN Return(@, "transactionResponse") ELSE Throw(@, "waitForResult")]
  /\ UNCHANGED subscriptionVars
  /\ UNCHANGED <<connected, localStorage, socketClient, walletConnected,
                 walletAddress, started>>

\* --------------------------------------------------------- isConnected()
\* isConnected() is called: it runs up to `await this._require_connection()`.
isConnected_call ==
  /\ started < MaxCalls
  /\ started' = started + 1
  /\ task' = [task EXCEPT ![started + 1] =
                NewTask("isConnected", "_require_connection")]
  /\ UNCHANGED subscriptionVars
  /\ UNCHANGED <<connected, localStorage, socketClient, walletConnected,
                 walletAddress>>

\* isConnected_after_require_connection without the try/catch of lines 263-269.
isConnected_after_require_connection_no_catch(t) ==
  /\ task[t].op = "isConnected" /\ task[t].pc = "_require_connection"
  /\ \E ok \in (IF walletConnected THEN BOOLEAN ELSE {FALSE}),
        getItemOk \in BOOLEAN :
       LET list == accounts(localStorage) IN
       task' = [task EXCEPT ![t] =
         IF ~ok THEN Throw([@ EXCEPT !.hook = "throw"], "_require_connection")
         ELSE IF ~getItemOk
           THEN Throw([@ EXCEPT !.hook = "ok", !.seen = "threw"], "getItem")
         ELSE Return([@ EXCEPT !.hook = "ok",
                               !.seen = IF Len(list) > 0 THEN "some" ELSE "empty"],
                     IF Len(list) > 0 THEN "true" ELSE "false")]
  /\ UNCHANGED subscriptionVars
  /\ UNCHANGED <<connected, localStorage, socketClient, walletConnected,
                 walletAddress, started>>

\* _require_connection() settles (lines 264-269).  The hook throws when the
\* wallet has no active connection (line 210), and may throw anyway; accounts()
\* reads the storage, which may throw; whatever is thrown becomes false.
isConnected_after_require_connection(t) ==
  /\ task[t].op = "isConnected" /\ task[t].pc = "_require_connection"
  /\ \E ok \in (IF walletConnected THEN BOOLEAN ELSE {FALSE}),
        getItemOk \in BOOLEAN :
       LET list == accounts(localStorage) IN
       task' = [task EXCEPT ![t] =
         IF ~ok THEN Return([@ EXCEPT !.hook = "throw"], "false")
         ELSE IF ~getItemOk
           THEN Return([@ EXCEPT !.hook = "ok", !.seen = "threw"], "false")
         ELSE Return([@ EXCEPT !.hook = "ok",
                               !.seen = IF Len(list) > 0 THEN "some" ELSE "empty"],
                     IF Len(list) > 0 THEN "true" ELSE "false")]
  /\ UNCHANGED subscriptionVars
  /\ UNCHANGED <<connected, localStorage, socketClient, walletConnected,
                 walletAddress, started>>

\* --------------------------------------------------- capability stubs
\* The methods of lines 345-377.
Stubs == {"addAssets", "addAsset", "assets", "addNetwork", "selectNetwork",
          "addAbi", "getAbi", "hasAbi"}

\* stub_call in which hasAbi answers false instead of throwing.
stub_call_hasAbi_false ==
  /\ started < MaxCalls
  /\ started' = started + 1
  /\ \E m \in Stubs :
       task' = [task EXCEPT ![started + 1] =
         IF m = "hasAbi" THEN Return(NewTask(m, "body"), "false")
                         ELSE Throw(NewTask(m, "body"), "Method not implemented")]
  /\ UNCHANGED subscriptionVars
  /\ UNCHANGED <<connected, localStorage, socketClient, walletConnected,
                 walletAddress>>

\* One of the stubs is called: its body is a single throw, so the promise it
\* returns is rejected before anything else runs.
stub_call ==
  /\ started < MaxCalls
  /\ started' = started + 1
  /\ \E m \in Stubs :
       task' = [task EXCEPT ![started + 1] =
         Throw(NewTask(m, "body"), "Method not implemented")]
  /\ UNCHANGED subscriptionVars
  /\ UNCHANGED <<connected, localStorage, socketClient, walletConnected,
                 walletAddress>>

\* ------------------------------------------------------------------ Next
Next ==
  \/ connect_call
  \/ \E t \in Tasks : connect_after_connect(t)
  \/ \E t \in Tasks : connect_after_get_providers(t)
  \/ \E t \in Tasks : connect_after_setup(t)
  \/ \E t \in Tasks : connect_after_sign_message(t)
  \/ \E t \in Tasks : connect_after_authenticate(t)
  \/ \E t \in Tasks : connect_after_connectDapp(t)
  \/ \E t \in Tasks : connect_after_wallet(t)
  \/ disconnect_call
  \/ \E t \in Tasks : disconnect_after_disconnect(t)
  \/ sendTransaction_call
  \/ \E t \in Tasks : sendTransaction_after_get_providers(t)
  \/ \E t \in Tasks : sendTransaction_after_create(t)
  \/ \E t \in Tasks : sendTransaction_after_fromAddress(t)
  \/ \E t \in Tasks : sendTransaction_after_BakoTransfer(t)
  \/ \E t \in Tasks : sendTransaction_after_sign_message(t)
  \/ \E t \in Tasks : sendTransaction_after_signTransaction(t)
  \/ \E t \in Tasks : sendTransaction_after_send(t)
  \/ \E t \in Tasks : sendTransaction_after_waitForResult(t)
  \/ isConnected_call
  \/ \E t \in Tasks : isConnected_after_require_connection(t)
  \/ stub_call

Spec == Init /\ [][Next]_vars

\* -------------------------------------------------------- subscriptions
\* subscribe() and clearSubscriptions() read and write this.subscriptions
\* only, and no other method touches it: they are run as a specification of
\* their own, from the same initial states.

\* subscribe(listener), lines 431-433.
subscribe ==
  /\ Len(subscriptions) < MaxSubscriptions
  /\ \E listener \in Listeners : subscriptions' = Append(subscriptions, listener)
  /\ UNCHANGED <<invoked, clears>>
  /\ UNCHANGED connectorVars

\* clearSubscriptions(), lines 438-444: forEach calls the listeners in order;
\* the first `k` return, and when that is not all of them the next one throws,
\* which ends forEach and the method before line 443 empties the list.
clearSubscriptions ==
  /\ clears < MaxClears
  /\ clears' = clears + 1
  /\ \E k \in 0..Len(subscriptions) :
       IF k = Len(subscriptions)
         THEN invoked' = subscriptions /\ subscriptions' = <<>>
         ELSE invoked' = SubSeq(subscriptions, 1, k + 1)
              /\ UNCHANGED subscriptions
  /\ UNCHANGED connectorVars

NextSubscriptions == subscribe \/ clearSubscriptions

SpecSubscriptions == Init /\ [][NextSubscriptions]_vars

\* ================================================================ claims

Connects == {t \in Tasks : task[t].op = "connect"}
Disconnects == {t \in Tasks : task[t].op = "disconnect"}
Sends == {t \in Tasks : task[t].op = "sendTransaction"}
Checks == {t \in Tasks : task[t].op = "isConnected"}
Done(t) == task[t].pc = "done"

\* C1 - A connect() started while disconnected that returns true has set the
\* connected state itself; one that fails after its wallet hook succeeded
\* leaves the connector disconnected (as long as no other call connected it).
C1_FailedConnectEndsDisconnected ==
  \A t \in Connects :
    /\ task[t].result = "true" => task[t].setConnected
    /\ ( /\ task[t].result = "threw" /\ task[t].hook = "true"
         /\ \A u \in Tasks \ {t} : ~task[u].setConnected )
       => ~connected

\* C2 - Whenever disconnect() ends, its wallet-hook teardown having raised or
\* not, the connector is disconnected and the current-account and
\* selected-predicate-version keys are gone (removals that themselves fail
\* set aside).
C2_DisconnectAlwaysClears ==
  [][ \A t \in Tasks :
        ( /\ task[t].op = "disconnect" /\ ~Done(t) /\ Done(t)'
          /\ task'[t].seen # "caught" )
        => /\ ~connected'
           /\ localStorage'[CURRENT_ACCOUNT] = Null
           /\ localStorage'[SELECTED_PREDICATE_KEY] = Null ]_vars

\* C3 - No sendTransaction(), made while no other call is in flight, reaches
\* the custody service while the connected flag is false.
C3_NoCustodyCallWhileDisconnected ==
  \A t \in Sends : task[t].alone => task[t].began # "disconnected"

\* C4 - A connect() that has not returned true (it failed, or it is suspended
\* at an await and may be abandoned there) has neither set the connected state
\* nor written the current-account entry.
C4_OnlySuccessfulConnectPersists ==
  \A t \in Connects :
    task[t].result # "true" => ~task[t].setConnected /\ ~task[t].wroteAccount

\* C5 - connect() calls are serialized, so at no time do two of them have a
\* challenge exchange (setup, signing, authenticate) under way at once.
C5_OneChallengeExchangeAtATime ==
  \A t, u \in Connects :
    ( /\ task[t].pc \in {"setup", "_sign_message", "authenticate"}
      /\ task[u].pc \in {"setup", "_sign_message", "authenticate"} )
    => t = u

\* C6 - A connect() whose wallet hook resolves false returns false at that
\* step, and neither its start nor that step writes storage, emits an event,
\* calls the custody service or changes the connected flag.
C6_HookFalseReturnsFalse ==
  [][ \A t \in Tasks :
        /\ (task[t].op = "none" /\ task'[t].op = "connect")
           => /\ localStorage' = localStorage /\ connected' = connected
              /\ task'[t].calls = <<>> /\ task'[t].emitted = <<>>
        /\ (task[t].op = "connect" /\ task[t].pc = "_connect"
              /\ task'[t].hook = "false")
           => /\ task'[t].pc = "done" /\ task'[t].result = "false"
              /\ localStorage' = localStorage /\ connected' = connected
              /\ task'[t].calls = <<>> /\ task'[t].emitted = <<>>
              /\ ~task'[t].changed /\ ~task'[t].setConnected ]_vars

C6_Witness ==
  \E t \in Connects :
    Done(t) /\ task[t].hook = "false" /\ task[t].result = "false"
      /\ ~connected

\* C7 - connect() returns false exactly when its wallet hook resolved false;
\* once the hook resolved true it ends by returning true or by raising, and
\* with no address it raises 'EVM address not found' having requested no
\* challenge.
C7_FalseOnlyForHookFailure ==
  \A t \in Connects :
    /\ task[t].result = "false" <=> task[t].hook = "false"
    /\ (Done(t) /\ task[t].hook = "true") => task[t].result \in {"true", "threw"}
    /\ (Done(t) /\ task[t].hook = "true" /\ task[t].evmAddress = Null)
       => /\ task[t].result = "threw"
          /\ task[t].error = "EVM address not found"
          /\ task[t].calls = <<>>

C7_Witness ==
  \E t \in Connects :
    /\ Done(t) /\ task[t].hook = "true" /\ task[t].evmAddress = Null
    /\ task[t].error = "EVM address not found"

\* C8 - The stored session id stays the one the socket client was created
\* with: every getSessionId() of a connect() or sendTransaction() returns it,
\* it is what connectDapp and the sendTransaction token carry, and a
\* disconnect() leaves it in place.
C8_SessionIdNeverChanges ==
  /\ localStorage[SESSION_ID] = socketClient
  /\ \A t \in Tasks :
       /\ task[t].sessionId \in {Null, socketClient}
       /\ \A i \in 1..Len(task[t].calls) :
            /\ task[t].calls[i].name = "connectDapp"
               => task[t].calls[i].arg = socketClient
            /\ task[t].calls[i].name = "create"
               => task[t].calls[i].arg = "connector" \o socketClient

C8_Witness ==
  \E t \in Disconnects, u \in Tasks :
    /\ t < u /\ Done(t) /\ task[t].result = "true" /\ task[u].alone
    /\ task[u].sessionId = socketClient

\* C9 - A disconnect() made right after a disconnect() that returned true
\* returns true as well, and is a no-op: it changes no storage and emits
\* nothing further.
C9_SecondDisconnectIsNoOp ==
  \A t \in Disconnects :
    ( /\ t > 1 /\ Done(t) /\ task[t].alone
      /\ task[t - 1].op = "disconnect" /\ task[t - 1].result = "true" )
    => /\ task[t].result = "true"
       /\ ~task[t].changed
       /\ task[t].emitted = <<>>

\* C10 - isConnected() ends by returning true or false, never by raising, and
\* returns true exactly when _require_connection() passed and accounts(), read
\* at that moment, is not empty.
C10_IsConnectedIffHookAndAccounts ==
  [][ \A t \in Tasks :
        (task[t].op = "isConnected" /\ ~Done(t) /\ Done(t)')
        => /\ task'[t].result \in {"true", "false"}
           /\ task'[t].result = "true"
                <=> ( /\ task'[t].hook = "ok" /\ task'[t].seen # "threw"
                      /\ accounts(localStorage) # <<>> ) ]_vars

C10_Witness ==
  \E t \in Checks :
    Done(t) /\ task[t].result = "true" /\ task[t].hook = "ok"
      /\ task[t].seen = "some"

\* C11 - When a connect() returns true, accounts() is a list of exactly one
\* address, the wallet address that connect() announced, and currentAccount()
\* is that same address.
C11_ConnectedAccountIsReadBack ==
  [][ \A t \in Tasks :
        (task[t].op = "connect" /\ ~Done(t) /\ task'[t].result = "true")
        => LET list == accounts(localStorage') IN
           /\ Len(list) = 1
           /\ currentAccount(connected', localStorage') = list[1]
           /\ task'[t].emitted[2].payload = list ]_vars

C11_Witness ==
  /\ started = 1 /\ task[1].op = "connect" /\ task[1].result = "true"
  /\ accounts(localStorage) = <<"0xW1">>
  /\ currentAccount(connected, localStorage) = "0xW1"

\* C12 - A call of a capability stub, in whatever state the connector is,
\* ends at once by raising 'Method not implemented' and changes neither the
\* connected flag nor the storage; no stub call ever has another outcome.
C12_StubsAlwaysThrow ==
  /\ [](\A t \in Tasks :
          task[t].op \in Stubs
          => /\ Done(t) /\ task[t].result = "threw"
             /\ task[t].error = "Method not implemented")
  /\ [][ \A t \in Tasks :
           (task[t].op = "none" /\ task'[t].op \in Stubs)
           => /\ connected' = connected /\ localStorage' = localStorage
              /\ socketClient' = socketClient
              /\ \A u \in Tasks \ {t} : task'[u] = task[u] ]_vars

C12_Witness ==
  \E t, u \in Tasks :
    /\ task[t].op = "connect" /\ task[t].result = "true" /\ connected
    /\ task[u].op = "hasAbi" /\ task[u].result = "threw"
    /\ task[u].error = "Method not implemented"

\* C13 - When a removal of a storage key fails inside disconnect(), the call
\* still leaves the connected flag false, still emits connection=false,
\* currentAccount=null and accounts=[], in that order, and still returns true.
C13_RemovalFailureNotPropagated ==
  [][ \A t \in Tasks :
        ( /\ task[t].op = "disconnect" /\ ~Done(t) /\ Done(t)'
          /\ task'[t].seen = "caught" )
        => /\ ~connected'
           /\ task'[t].result = "true"
           /\ Len(task'[t].emitted) = 3
           /\ task'[t].emitted[1].event = "connection"
           /\ task'[t].emitted[1].payload = <<"false">>
           /\ task'[t].emitted[2].event = "currentAccount"
           /\ task'[t].emitted[2].payload = <<Null>>
           /\ task'[t].emitted[3].event = "accounts"
           /\ task'[t].emitted[3].payload = <<>> ]_vars

C13_Witness ==
  \E t \in Disconnects :
    /\ Done(t) /\ task[t].seen = "caught" /\ task[t].result = "true"
    /\ localStorage[CURRENT_ACCOUNT] # Null /\ ~connected

\* C14 - Every notification of a connect() that returns true is emitted with
\* the connected flag already true and the new account already stored, so a
\* listener reading the connector inside it sees the connected state.
C14_NotifiedAfterStateUpdate ==
  \A t \in Connects :
    task[t].result = "true"
    => \A i \in 1..Len(task[t].emitted) :
         /\ task[t].emitted[i].connected
         /\ task[t].emitted[i].accounts = task[t].emitted[2].payload

\* The calls sendTransaction() makes on the custody service and the vault, in
\* the order of lines 147-177, and the names of those a task has made.
SendOrder ==
  <<"create", "fromAddress", "BakoTransfer", "signTransaction", "send",
    "waitForResult">>
Names(t) == [i \in 1..Len(task[t].calls) |-> task[t].calls[i].name]
IsPrefix(a, b) == Len(a) <= Len(b) /\ \A i \in 1..Len(a) : a[i] = b[i]

\* C15 - The calls of one sendTransaction() are a prefix of: resolve the
\* vault, build the transfer, (sign the encoded id,) submit the co-signature,
\* dispatch, await settlement; each is made at most once; a step that fails
\* ends the call with that failure, the failed step being the last one made;
\* and the call returns only with all of them made.
C15_StepsInOrderNoRetry ==
  \A t \in Sends :
    /\ IsPrefix(Names(t), SendOrder)
    /\ task[t].result = "threw" => Done(t)
    /\ \A i \in 1..Len(SendOrder) :
         /\ task[t].error = SendOrder[i]
            => Done(t) /\ task[t].result = "threw" /\ Len(Names(t)) = i
         /\ (~Done(t) /\ task[t].pc = SendOrder[i]) => Len(Names(t)) = i
    /\ (task[t].error = "_sign_message" \/ task[t].pc = "_sign_message")
       => Len(Names(t)) = 3
    /\ task[t].result = "transactionResponse" => Names(t) = SendOrder
    /\ Done(t) => task[t].result \in {"threw", "transactionResponse"}

C15_Witness ==
  \E t \in Sends :
    task[t].result = "transactionResponse" /\ Names(t) = SendOrder

\* C16 - In a sendTransaction() the version the transaction id is encoded for
\* and the version the signature envelope is encoded for are both the version
\* of the vault that call resolved.
C16_EncodingsUseVaultVersion ==
  \A t \in Sends :
    /\ task[t].idVersion # Null
       => task[t].version \in Versions /\ task[t].idVersion = task[t].version
    /\ task[t].sigVersion # Null
       => task[t].idVersion = task[t].version
          /\ task[t].sigVersion = task[t].version
    /\ (\E i \in 1..Len(task[t].calls) : task[t].calls[i].name = "signTransaction")
       => task[t].sigVersion = task[t].version
          /\ task[t].idVersion = task[t].version

C16_Witness ==
  \E t \in Sends :
    /\ task[t].version = "v2" /\ task[t].idVersion = "v2"
    /\ task[t].sigVersion = "v2" /\ task[t].pc = "signTransaction"

\* C17 - Every clearSubscriptions() invokes each registered callback once, in
\* registration order, and leaves the subscription list empty, a callback
\* that raises included.
C17_ClearInvokesAllAndEmpties ==
  [][ clears' = clears + 1
      => invoked' = subscriptions /\ subscriptions' = <<>> ]_vars

\* C18 - Once disconnect() has returned true and no connect() was started
\* after it, the connector is disconnected: the connected flag is false and
\* the current-account entry is absent, also when a connect() started before
\* the disconnect() resumes after it.
C18_StaysDisconnectedAfterDisconnect ==
  \A t \in Disconnects :
    ( /\ Done(t) /\ task[t].result = "true" /\ task[t].seen = "removed"
      /\ \A u \in Tasks \ {t} : task[u].op \in {"connect", "disconnect"} => u < t )
    => ~connected /\ localStorage[CURRENT_ACCOUNT] = Null

\* C19 - A connect() that has raised or returned false has emitted nothing:
\* connection=true, currentAccount and accounts come only from a connect()
\* that returns true.
C19_OnlySuccessfulConnectNotifies ==
  \A t \in Connects :
    (Done(t) /\ task[t].result # "true") => task[t].emitted = <<>>

\* C20 - Whenever isConnected() returns true, currentAccount() returns an
\* address, and accounts() returns that address and nothing else.
C20_ReadsAgree ==
  [][ \A t \in Tasks :
        ( /\ task[t].op = "isConnected" /\ ~Done(t)
          /\ task'[t].pc = "done" /\ task'[t].result = "true" )
        => /\ currentAccount(connected', localStorage') # Null
           /\ accounts(localStorage')
                = <<currentAccount(connected', localStorage')>> ]_vars

====
